---- MODULE Spec2Model ----
(***************************************************************************)
(* The staged conversion pipeline of scripts/convert_model.py: main,       *)
(* check_dependencies, convert_model with its eight gated stages, the      *)
(* stage side effects on the output root, and collect_outputs.             *)
(*                                                                         *)
(* The output root is modelled as a map from artifact paths to the JSON    *)
(* content written there.  A path is the record of the fields its file     *)
(* name is formatted from; a content is the record of the fields dumped.   *)
(* The timestamp datetime.now() is abstracted to the number of the run     *)
(* that wrote the file.  argparse's None for --restart/--only is 0: the    *)
(* code only tests these values for truthiness before comparing them.      *)
(*                                                                         *)
(* Of scripts/convert_hf_to_coreml.py: detect_model_architecture and       *)
(* recommend_chunk_count applied to a config, and the progress tracker     *)
(* (progress_step, update_progress).  A str is the sequence of its         *)
(* characters; progress fractions and parameter counts are held as         *)
(* integers over a fixed denominator or unit.                              *)
(*                                                                         *)
(* Of scripts/convert_model_for_ane.py: main and run_script, with the      *)
(* child process and its two pipes.  Of scripts/split_coreml_model.py:     *)
(* the layer ranges and directories of split_model_into_chunks.            *)
(***************************************************************************)
EXTENDS Integers, Sequences, FiniteSets, TLC

\* ------------------------------------------------------------- bounds
\* Number of successive invocations of the script on one output root.
MaxRuns == 2
\* Largest --chunks value tried (0 is accepted by argparse as well).
MaxChunks == 2
\* model_type strings are made of at most this many pieces
MaxParts == 2
\* hidden sizes tried: multiples of 2048 up to MaxHidden * 2048
MaxHidden == 4
\* layer counts tried: multiples of 16 up to MaxLayers * 16
MaxLayers == 5
\* update_progress is called with the fractions 0/Grain .. Grain/Grain
Grain == 10
\* seconds the clock runs for
MaxTime == 3

\* ---------------------------------------------------- program constants
NumStages == 8
DefaultContext == 1024
DefaultBatchSize == 64

None == "None"
Stages == 1..NumStages
\* --lut choices=[4, 6, 8]
LutChoices == {4, 6, 8}
\* the --lut values tried across successive runs
RunLuts == {4, 6}
ChunkChoices == 0..MaxChunks
\* --restart / --only: any int; 0 stands for "not given"
RestartChoices == 0..NumStages
OnlyChoices == 0..NumStages
\* --architecture: not given, or an explicit tag
ArchitectureArgs == {None, "mistral"}
\* model directories, named by what their config.json holds
Models == {"llama", "qwen2", "Mistral", "stablelm", "bert", "notype", "noconfig"}

\* names bound at module level of convert_model.py (imports and functions)
ModuleGlobals ==
  {"os", "sys", "argparse", "time", "json", "subprocess", "shutil",
   "datetime", "Path", "parse_args", "check_dependencies",
   "detect_architecture", "create_directory", "report_progress",
   "convert_embeddings", "convert_lm_head", "convert_ffn", "convert_prefill",
   "combine_models", "compile_models", "create_metadata", "test_conversion",
   "collect_outputs", "convert_model", "main"}

TokenizerFiles == {"tokenizer.json", "tokenizer_config.json", "special_tokens_map.json"}

VARIABLES
  pc,         \* position of the process: idle, check, setup, stage, collect, except, returned, exited
  cur,        \* the stage block convert_model is at (1..8)
  params,     \* the argparse namespace of the current run
  dirs,       \* directories that exist under the output root
  store,      \* files under the output root: path -> content
  bound,      \* local variables of convert_model that have been assigned
  locals,     \* their values (sequences of paths)
  error,      \* the exception caught by convert_model's except clause
  result,     \* return value of convert_model: "none", "True", "False"
  exitCode,   \* exit code of the process, -1 while it runs
  runs,       \* number of invocations so far (also the abstract timestamp)
  executed,   \* history: stages whose side effect was invoked in this run
  completed,  \* history: stages whose side effect returned in this run
  collected,  \* history: collect_outputs was invoked in this run
  depsOk,     \* the machine has every package and tool check_dependencies looks for
  store0,     \* history: the files at the start of this run
  dirs0,      \* history: the directories at the start of this run
  written,    \* history: what the completed stages of this run wrote
  params0,    \* history: the namespace as parse_args returned it
  \* ---- the process of scripts/convert_hf_to_coreml.py
  config,               \* the AutoConfig loaded from --model_path
  architecture,         \* main's local architecture (None before it is assigned)
  chunks,               \* main's local chunks (0 before it is assigned)
  conversion_progress,  \* the module-level progress dictionary
  step,                 \* the progress_step block main is at or has just left
  at,                   \* position of main: main, step, failed
  weights,              \* the weight argument each progress_step call passes
  now,                  \* time.time()
  report,               \* the last status line update_progress wrote
  \* ---- the process of scripts/convert_model_for_ane.py and its child
  opc,        \* position of main: idle, check, popen, readline, wait, readme, returned, raised
  script,     \* the sub-script main is at (1..3), 0 before the first
  odeps,      \* the machine has every package check_dependencies imports
  started,    \* history: the sub-scripts started, in order
  codes,      \* history: the exit codes process.wait() collected, in order
  readme,     \* README.md has been written
  ret,        \* return value of main, -1 before it returns
  cpc,        \* the child process: none, running, exited
  pending,    \* the stream the child is blocked writing to, or none
  outPipe,    \* lines in the stdout pipe
  errPipe,    \* lines in the stderr pipe
  emitted,    \* lines the child has written or is writing
  returncode, \* exit code of the child
  \* ---- split_model_into_chunks of scripts/split_coreml_model.py
  total_layers,  \* len(layers)
  num_chunks,    \* --num_chunks
  loop_i,        \* the loop variable i of range(num_chunks), next value
  ranges,        \* history: <<start_idx, end_idx>> of each iteration
  chunk_names    \* the chunk directories made, by the number in their name

pipelineVars ==
  <<pc, cur, params, dirs, store, bound, locals, error, result, exitCode,
    runs, executed, completed, collected, depsOk, store0, dirs0, written, params0>>

converterVars ==
  <<config, architecture, chunks, conversion_progress, step, at, weights, now, report>>

orchestratorVars ==
  <<opc, script, odeps, started, codes, readme, ret, cpc, pending, outPipe,
    errPipe, emitted, returncode>>

splitVars == <<total_layers, num_chunks, loop_i, ranges, chunk_names>>

vars == <<pipelineVars, converterVars, orchestratorVars, splitVars>>

\* ------------------------------------------------------------- paths
Path(loc, kind, lut, idx, total) ==
  [loc |-> loc, kind |-> kind, lut |-> lut, idx |-> idx, total |-> total]

\* temp/llama_embeddings.mlpackage
EmbeddingsPath == Path("temp", "embeddings", 0, 0, 0)
\* temp/llama_lm_head_lut{lut}.mlpackage
LmHeadPath(P) == Path("temp", "lm_head", P.lut, 0, 0)
\* a chunk name formatted from the loop variable i - 1 instead of chunk_num
ChunkPathFromZero(kind, P, i) == Path("temp", kind, P.lut, i - 1, P.chunks)

\* temp/llama_{FFN|prefill|combined}_lut{lut}_chunk_{i:02d}of{N:02d}.mlpackage
ChunkPath(kind, P, i) == Path("temp", kind, P.lut, i, P.chunks)
ChunkPaths(kind, P) == [i \in 1..P.chunks |-> ChunkPath(kind, P, i)]
\* a compiler that names every compiled chunk after the first chunk
CompiledPathFirstChunk(src) ==
  [src EXCEPT !.loc = "compiled", !.idx = IF src.idx > 1 THEN 1 ELSE src.idx]

\* temp/compiled/{basename without .mlpackage}.mlmodelc
CompiledPath(src) == [src EXCEPT !.loc = "compiled"]
\* {output}/{item}
OutputPath(src) == [src EXCEPT !.loc = "output"]
MetaYamlPath == Path("output", "meta.yaml", 0, 0, 0)
MetaJsonPath == Path("output", "meta.json", 0, 0, 0)
TestReportPath == Path("output", "test_report.json", 0, 0, 0)

File(p, c) == [path |-> p, content |-> c]

\* a write that first removes the directory it writes into
WriteClobber(st, f) == [q \in {f.path} |-> f.content]

Write(st, f) ==
  [q \in DOMAIN st \cup {f.path} |-> IF q = f.path THEN f.content ELSE st[q]]

RECURSIVE WriteAll(_, _)
WriteAll(st, fs) ==
  IF fs = <<>> THEN st ELSE WriteAll(Write(st, Head(fs)), Tail(fs))

EmptyStore == [q \in {} |-> 0]

\* ------------------------------------------------- character strings
\* A Python str is the sequence of its characters.
UpperCase ==
  <<"A", "B", "C", "D", "E", "F", "G", "H", "I", "J", "K", "L", "M",
    "N", "O", "P", "Q", "R", "S", "T", "U", "V", "W", "X", "Y", "Z">>
LowerCase ==
  <<"a", "b", "c", "d", "e", "f", "g", "h", "i", "j", "k", "l", "m",
    "n", "o", "p", "q", "r", "s", "t", "u", "v", "w", "x", "y", "z">>

\* the string literals of the two architecture tables
Spell ==
  [llama    |-> <<"l", "l", "a", "m", "a">>,
   mistral  |-> <<"m", "i", "s", "t", "r", "a", "l">>,
   phi      |-> <<"p", "h", "i">>,
   qwen     |-> <<"q", "w", "e", "n">>,
   qwq      |-> <<"q", "w", "q">>,
   falcon   |-> <<"f", "a", "l", "c", "o", "n">>,
   gemma    |-> <<"g", "e", "m", "m", "a">>,
   stablelm |-> <<"s", "t", "a", "b", "l", "e", "l", "m">>,
   mpt      |-> <<"m", "p", "t">>]

\* a str.lower that leaves every character as it is
lowerKept(s) == s

\* str.lower()
lower(s) ==
  [i \in 1..Len(s) |->
     IF \E j \in 1..Len(UpperCase) : UpperCase[j] = s[i]
     THEN LowerCase[CHOOSE j \in 1..Len(UpperCase) : UpperCase[j] = s[i]]
     ELSE s[i]]

\* a membership test that compares whole strings
ContainsWhole(t, s) == t = s

\* t in s
Contains(t, s) ==
  \E i \in 0..(Len(s) - Len(t)) : SubSeq(s, i + 1, i + Len(t)) = t


\* ------------------------------------------------ stage side effects
\* Each stage function is the sequence of files it writes, in write order.
\* P is the argparse namespace, t the timestamp.

convert_embeddings(P, t) ==
  << File(EmbeddingsPath,
          [part |-> "embeddings", architecture |-> P.architecture,
           context_length |-> P.context, created |-> t]) >>

convert_lm_head(P, t) ==
  << File(LmHeadPath(P),
          [part |-> "lm_head", architecture |-> P.architecture,
           lut_bits |-> P.lut, created |-> t]) >>

\* a stage 3 that saves only the first chunk of the list it returns
convert_ffn_first(P, t) ==
  [i \in 1..(IF P.chunks > 1 THEN 1 ELSE P.chunks) |->
     File(ChunkPath("FFN", P, i),
          [part |-> "ffn", chunk |-> <<i, P.chunks>>,
           architecture |-> P.architecture, lut_bits |-> P.lut,
           context_length |-> P.context, created |-> t])]

convert_ffn(P, t) ==
  [i \in 1..P.chunks |->
     File(ChunkPath("FFN", P, i),
          [part |-> "ffn", chunk |-> <<i, P.chunks>>,
           architecture |-> P.architecture, lut_bits |-> P.lut,
           context_length |-> P.context, created |-> t])]

convert_prefill(P, t) ==
  [i \in 1..P.chunks |->
     File(ChunkPath("prefill", P, i),
          [part |-> "prefill", chunk |-> <<i, P.chunks>>,
           architecture |-> P.architecture, lut_bits |-> P.lut,
           context_length |-> P.context, batch_size |-> P.batch_size,
           created |-> t])]

\* ffn_chunks and prefill_chunks are received and not read
combine_models(P, t, ffn_chunks, prefill_chunks) ==
  [i \in 1..P.chunks |->
     File(ChunkPath("combined", P, i),
          [part |-> "combined", chunk |-> <<i, P.chunks>>,
           architecture |-> P.architecture, lut_bits |-> P.lut,
           context_length |-> P.context, batch_size |-> P.batch_size,
           created |-> t])]

compile_models(P, t, embeddings_path, lm_head_path, combined_chunks) ==
  LET inputs == embeddings_path \o lm_head_path \o combined_chunks
  IN  [j \in 1..Len(inputs) |->
         File(CompiledPath(inputs[j]),
              [name |-> inputs[j], architecture |-> P.architecture,
               compiled |-> TRUE, created |-> t])]

\* params.architecture or "auto-detected"
ArchitectureOrPlaceholder(P) ==
  IF P.architecture = None THEN "auto-detected" ELSE P.architecture

MetaYaml(P) ==
  [name |-> <<P.model, P.context>>,
   description |-> <<P.context, P.batch_size, P.chunks>>,
   context_length |-> P.context, batch_size |-> P.batch_size,
   lut_bits |-> P.lut, num_chunks |-> P.chunks,
   architecture |-> ArchitectureOrPlaceholder(P)]

MetaJson(P) ==
  [name |-> <<P.model, P.context>>,
   description |-> <<P.context, P.batch_size, P.chunks>>,
   context_length |-> P.context, batch_size |-> P.batch_size,
   lut_bits |-> P.lut, num_chunks |-> P.chunks,
   architecture |-> ArchitectureOrPlaceholder(P)]

create_metadata(P) ==
  << File(MetaYamlPath, MetaYaml(P)), File(MetaJsonPath, MetaJson(P)) >>

test_conversion(P, t) ==
  << File(TestReportPath,
          [test_time |-> t, model |-> P.model, architecture |-> P.architecture,
           status |-> "success"]) >>

\* ------------------------------------------ convert_hf_to_coreml.py
\* architecture_mapping, in insertion order; each key maps to itself
architecture_mapping ==
  <<"llama", "mistral", "phi", "qwen", "qwq", "falcon", "gemma", "stablelm", "mpt">>

\* for key, architecture in mapping.items(): if key in model_type: return
RECURSIVE FirstMatch(_, _)
FirstMatch(mapping, model_type) ==
  IF mapping = <<>> THEN "generic"
  ELSE IF Contains(Spell[Head(mapping)], model_type) THEN Head(mapping)
  ELSE FirstMatch(Tail(mapping), model_type)

detect_model_architecture(cfg) ==
  FirstMatch(architecture_mapping, lower(cfg.model_type))

\* An AutoConfig: model_type and the attributes recommend_chunk_count reads.
\* 0 stands for an attribute that is absent (getattr gives None) or falsy.
Config(model_type, hidden, layers, vocab_size) ==
  [model_type |-> model_type,
   hidden_size |-> hidden[1], n_embd |-> hidden[2], d_model |-> hidden[3],
   num_hidden_layers |-> layers[1], n_layer |-> layers[2], num_layers |-> layers[3],
   vocab_size |-> vocab_size]

\* a or b
Or(a, b) == IF a # 0 THEN a ELSE b

\* Parameter counts are held in units of ParamUnit parameters, so that
\* 7e9 and above stay within the integers; hidden sizes are multiples of it.
ParamUnit == 64
Billion == 1000000000 \div ParamUnit

\* 4 * (hidden_size ** 2) * num_layers + vocab_size * hidden_size
ParamCount(hidden_size, num_layers, vocab_size) ==
  LET k == hidden_size \div ParamUnit
  IN  4 * ParamUnit * k * k * num_layers + vocab_size * k

architecture_base_chunks ==
  [llama |-> 6, mistral |-> 7, phi |-> 6, qwen |-> 8, qwq |-> 9, falcon |-> 7,
   gemma |-> 6, stablelm |-> 5, mpt |-> 6, generic |-> 6]

DefaultChunkCount == 6
MinChunkCount == 4

\* a scaling that rounds half up instead of truncating
ScaleRounded(n, percent) == (n * percent + 50) \div 100

\* int(n * 1.25), int(n * 1.5): the product truncated
Scale(n, percent) == (n * percent) \div 100

Max(a, b) == IF a >= b THEN a ELSE b

\* a sizing in which every model is in the smallest band
BandChunksFlat(base_chunks, param_count) == base_chunks

\* lines 203-208: the chunk count before it is made even
BandChunks(base_chunks, param_count) ==
  IF param_count < 2 * Billion THEN base_chunks
  ELSE IF param_count < 7 * Billion THEN Scale(base_chunks, 125)
  ELSE Scale(base_chunks, 150)

\* a chunk count that is left odd
EvenChunksKept(chunk_count) == Max(MinChunkCount, chunk_count)

\* line 211: max(4, 2 * ((chunk_count + 1) // 2))
EvenChunks(chunk_count) == Max(MinChunkCount, 2 * ((chunk_count + 1) \div 2))

\* a sizing that never falls back to the default
SizingKnownAlways(hidden_size, num_layers, vocab_size) == TRUE

\* all([hidden_size, num_layers, vocab_size])
SizingKnown(hidden_size, num_layers, vocab_size) ==
  hidden_size # 0 /\ num_layers # 0 /\ vocab_size # 0

recommend_chunk_count(cfg) ==
  LET arch == detect_model_architecture(cfg)
      hidden_size == Or(cfg.hidden_size, Or(cfg.n_embd, cfg.d_model))
      num_layers == Or(cfg.num_hidden_layers, Or(cfg.n_layer, cfg.num_layers))
      vocab_size == cfg.vocab_size
  IN  IF ~SizingKnown(hidden_size, num_layers, vocab_size) THEN DefaultChunkCount
      ELSE LET param_count == ParamCount(hidden_size, num_layers, vocab_size)
               base_chunks == IF arch \in DOMAIN architecture_base_chunks
                              THEN architecture_base_chunks[arch]
                              ELSE DefaultChunkCount
           IN  EvenChunks(BandChunks(base_chunks, param_count))

\* ---- the progress tracker
\* Progress values are fractions: step_progress is held as a numerator over
\* Grain, overall_progress as a numerator over total_steps * Grain.
TotalSteps == 8

conversion_steps ==
  <<"Loading model configuration", "Analyzing model architecture",
    "Loading model weights", "Optimizing model for ANE",
    "Tracing model with dummy inputs", "Converting to CoreML format",
    "Applying quantization", "Saving converted model">>

\* start_time is <<>> while it is None, <<t>> once it is set
InitialProgress ==
  [current_step |-> "", total_steps |-> TotalSteps, step_progress |-> 0,
   overall_progress |-> 0, start_time |-> <<>>, steps_completed |-> <<>>]

\* progress_step(step_name, weight=1.0)
DefaultWeight == 1
DefaultWeights == [i \in 1..TotalSteps |-> DefaultWeight]

\* progress_step, lines 44-49: entering the block at time t; weight is not read
progress_step_enter(cp, step_name, weight, t) ==
  [cp EXCEPT !.start_time = IF @ = <<>> THEN <<t>> ELSE @,
             !.current_step = step_name,
             !.step_progress = 0]

\* progress_step, lines 57-61: the block ended without an exception
progress_step_exit(cp, step_name) ==
  LET done == Append(cp.steps_completed, step_name)
  IN  [cp EXCEPT !.steps_completed = done,
                 !.step_progress = Grain,
                 !.overall_progress = Len(done) * Grain]

\* an update that never lets the overall value go down
update_progress_clamped(cp, progress) ==
  [cp EXCEPT !.step_progress = progress,
             !.overall_progress =
                Max(@, Len(cp.steps_completed) * Grain + progress)]

\* update_progress, lines 78-87
update_progress(cp, progress) ==
  [cp EXCEPT !.step_progress = progress,
             !.overall_progress = Len(cp.steps_completed) * Grain + progress]

\* fractions num/den
Rat(n, d) == [num |-> n, den |-> d]
RatDiv(a, b) == Rat(a.num * b.den, a.den * b.num)
RatSub(a, b) == Rat(a.num * b.den - b.num * a.den, a.den * b.den)

\* overall_progress as a fraction
Overall(cp) == Rat(cp.overall_progress, cp.total_steps * Grain)

\* an ETA computed for every report
EnoughProgressAlways(cp) == TRUE

\* if overall > 0.05
EnoughProgress(cp) == 20 * cp.overall_progress > cp.total_steps * Grain

NoReport ==
  [shown |-> FALSE, overall |-> Rat(0, 1), elapsed |-> 0, has_eta |-> FALSE,
   eta |-> Rat(0, 1)]

\* update_progress, lines 81-102: the status line written at time t, for
\* the dictionary cp as lines 78-87 left it
status(cp, t) ==
  LET elapsed == t - cp.start_time[1]
  IN  [shown |-> TRUE,
       overall |-> Overall(cp),
       elapsed |-> elapsed,
       has_eta |-> EnoughProgress(cp),
       eta |-> IF EnoughProgress(cp)
               THEN RatSub(RatDiv(Rat(elapsed, 1), Overall(cp)), Rat(elapsed, 1))
               ELSE Rat(0, 1)]

NoConfig == Config(<<>>, <<0, 0, 0>>, <<0, 0, 0>>, 0)

\* the converter before main has run
InitConverter ==
  /\ config = NoConfig
  /\ architecture = None
  /\ chunks = 0
  /\ conversion_progress = InitialProgress
  /\ step = 0
  /\ at = "main"
  /\ weights = DefaultWeights
  /\ now = 0
  /\ report = NoReport

\* -------------------------------------------- convert_model_for_ane.py
\* before main of convert_model_for_ane.py runs
InitOrchestrator ==
  /\ opc = "idle"
  /\ script = 0
  /\ odeps = TRUE
  /\ started = <<>>
  /\ codes = <<>>
  /\ readme = FALSE
  /\ ret = -1
  /\ cpc = "none"
  /\ pending = "none"
  /\ outPipe = 0
  /\ errPipe = 0
  /\ emitted = 0
  /\ returncode = -1

\* ------------------------------------------------ split_coreml_model.py
\* before split_model_into_chunks is called
InitSplit ==
  /\ total_layers = 0
  /\ num_chunks = 1
  /\ loop_i = 0
  /\ ranges = <<>>
  /\ chunk_names = {}

\* ------------------------------------------------------ convert_model
LocalNames ==
  {"embeddings_path", "lm_head_path", "ffn_chunks", "prefill_chunks",
   "combined_chunks", "compiled_dir", "meta_path", "test_success"}

\* the locals a stage's call reads, in the order the call evaluates them
StageArgs(s) ==
  CASE s = 5 -> <<"ffn_chunks", "prefill_chunks">>
    [] s = 6 -> <<"embeddings_path", "lm_head_path", "combined_chunks">>
    [] OTHER -> <<>>

\* the local a stage's return value is assigned to
StageTarget(s) ==
  CASE s = 1 -> "embeddings_path"
    [] s = 2 -> "lm_head_path"
    [] s = 3 -> "ffn_chunks"
    [] s = 4 -> "prefill_chunks"
    [] s = 5 -> "combined_chunks"
    [] s = 6 -> "compiled_dir"
    [] s = 7 -> "meta_path"
    [] OTHER -> "test_success"

\* the files stage s writes when called with namespace P and locals L
StageFiles(s, P, L, t) ==
  CASE s = 1 -> convert_embeddings(P, t)
    [] s = 2 -> convert_lm_head(P, t)
    [] s = 3 -> convert_ffn(P, t)
    [] s = 4 -> convert_prefill(P, t)
    [] s = 5 -> combine_models(P, t, L["ffn_chunks"], L["prefill_chunks"])
    [] s = 6 -> compile_models(P, t, L["embeddings_path"], L["lm_head_path"],
                               L["combined_chunks"])
    [] s = 7 -> create_metadata(P)
    [] OTHER -> test_conversion(P, t)

\* the value stage s returns
StageReturn(s, P) ==
  CASE s = 1 -> <<EmbeddingsPath>>
    [] s = 2 -> <<LmHeadPath(P)>>
    [] s = 3 -> ChunkPaths("FFN", P)
    [] s = 4 -> ChunkPaths("prefill", P)
    [] s = 5 -> ChunkPaths("combined", P)
    [] s = 6 -> <<Path("temp", "compiled", 0, 0, 0)>>
    [] s = 7 -> <<MetaYamlPath>>
    [] OTHER -> <<>>

\* if not params.only or params.only == s:
\*     if not params.restart or params.restart <= s:
StageGate(P, s) ==
  /\ (P.only = 0 \/ P.only = s)
  /\ (P.restart = 0 \/ P.restart <= s)

\* the first local of the call that is not assigned, or None
FirstUnbound(s, B) ==
  LET args == StageArgs(s)
      missing == {j \in 1..Len(args) : args[j] \notin B}
  IN  IF missing = {} THEN None
      ELSE args[CHOOSE j \in missing : \A k \in missing : j <= k]

\* config.json of a model directory: whether the file exists and what
\* config.get("model_type", "") gives
ConfigJson(model) ==
  CASE model = "llama"    -> [exists |-> TRUE, model_type |-> Spell.llama]
    [] model = "qwen2"    -> [exists |-> TRUE, model_type |-> Spell.qwen \o <<"2">>]
    [] model = "Mistral"  -> [exists |-> TRUE, model_type |-> <<"M">> \o Tail(Spell.mistral)]
    [] model = "stablelm" -> [exists |-> TRUE, model_type |-> Spell.stablelm]
    [] model = "bert"     -> [exists |-> TRUE, model_type |-> <<"b", "e", "r", "t">>]
    [] model = "notype"   -> [exists |-> TRUE, model_type |-> <<>>]
    [] OTHER              -> [exists |-> FALSE, model_type |-> <<>>]

\* the keys of architecture_map; each maps to itself
ArchitectureMapKeys == {"llama", "mistral", "phi", "gemma", "falcon", "qwen", "qwq"}

\* architecture_map.get(model_type, None)
ArchitectureMapGet(model_type) ==
  IF \E k \in ArchitectureMapKeys : Spell[k] = model_type
  THEN CHOOSE k \in ArchitectureMapKeys : Spell[k] = model_type
  ELSE None

detect_architecture(model) ==
  IF ~ConfigJson(model).exists THEN None
  ELSE ArchitectureMapGet(lower(ConfigJson(model).model_type))

\* a main that calls check_dependencies and drops its result
DependencyExitIgnored(skip_check, all_ok) == FALSE

\* if not params.skip_check and not check_dependencies(): sys.exit(1)
DependencyExit(skip_check, all_ok) == ~skip_check /\ ~all_ok

NoError == [kind |-> "none", name |-> None, stage |-> 0]

NoLocals == [n \in LocalNames |-> <<>>]

DefaultParams ==
  [model |-> "llama", architecture |-> None, context |-> DefaultContext,
   batch_size |-> DefaultBatchSize, chunks |-> 2, lut |-> 6,
   skip_check |-> FALSE, restart |-> 0, only |-> 0]

InitPipeline ==
  /\ pc = "idle"
  /\ cur = 1
  /\ params = DefaultParams
  /\ dirs = {}
  /\ store = EmptyStore
  /\ bound = {}
  /\ locals = NoLocals
  /\ error = NoError
  /\ result = "none"
  /\ exitCode = -1
  /\ runs = 0
  /\ executed = <<>>
  /\ completed = <<>>
  /\ collected = FALSE
  /\ depsOk = TRUE
  /\ store0 = EmptyStore
  /\ dirs0 = {}
  /\ written = EmptyStore
  /\ params0 = DefaultParams

Init == InitPipeline /\ InitConverter /\ InitOrchestrator /\ InitSplit

\* the namespaces parse_args can return, over the given option values
ArgSpace(models, archs, chunkss, luts, skips, restarts, onlys) ==
  [model : models, architecture : archs, context : {DefaultContext},
   batch_size : {DefaultBatchSize}, chunks : chunkss, lut : luts,
   skip_check : skips, restart : restarts, only : onlys]

\* invocations of Spec: every --restart/--only pair and chunk count
RunArgs ==
  ArgSpace({"llama"}, {None}, ChunkChoices, RunLuts, {FALSE},
           RestartChoices, OnlyChoices)

\* main, line 479: a new process parses its arguments
MainFrom(Args) ==
  /\ pc \in {"idle", "exited"}
  /\ runs < MaxRuns
  /\ params' \in Args
  /\ pc' = "check"
  /\ cur' = 1
  /\ bound' = {}
  /\ locals' = NoLocals
  /\ error' = NoError
  /\ result' = "none"
  /\ exitCode' = -1
  /\ runs' = runs + 1
  /\ executed' = <<>>
  /\ completed' = <<>>
  /\ collected' = FALSE
  /\ depsOk' \in BOOLEAN
  /\ store0' = store
  /\ dirs0' = dirs
  /\ written' = EmptyStore
  /\ params0' = params'
  /\ UNCHANGED <<dirs, store>>
  /\ UNCHANGED converterVars
  /\ UNCHANGED <<orchestratorVars, splitVars>>

Main == MainFrom(RunArgs)

\* main, lines 482-484: the dependency check
CheckDependencies ==
  /\ pc = "check"
  /\ IF DependencyExit(params.skip_check, depsOk)
     THEN pc' = "exited" /\ exitCode' = 1
     ELSE pc' = "setup" /\ exitCode' = exitCode
  /\ UNCHANGED <<cur, params, dirs, store, bound, locals, error, result, runs,
                 executed, completed, collected, depsOk, store0, dirs0, params0, written>>
  /\ UNCHANGED converterVars
  /\ UNCHANGED <<orchestratorVars, splitVars>>

\* convert_model, lines 385-406: directories and architecture detection
Setup ==
  /\ pc = "setup"
  /\ dirs' = dirs \cup {"temp", "output"}
  /\ params' = IF params.architecture = None
               THEN [params EXCEPT !.architecture = detect_architecture(params.model)]
               ELSE params
  /\ pc' = "stage"
  /\ cur' = 1
  /\ UNCHANGED <<store, bound, locals, error, result, exitCode, runs,
                 executed, completed, collected, depsOk, store0, dirs0, params0, written>>
  /\ UNCHANGED converterVars
  /\ UNCHANGED <<orchestratorVars, splitVars>>

AfterStage(s) == IF s = NumStages THEN "collect" ELSE "stage"

Advance ==
  /\ pc' = AfterStage(cur)
  /\ cur' = IF cur = NumStages THEN cur ELSE cur + 1

\* a stage block whose gate is false
StageSkip ==
  /\ pc = "stage"
  /\ ~StageGate(params, cur)
  /\ Advance
  /\ UNCHANGED <<params, dirs, store, bound, locals, error, result, exitCode,
                 runs, executed, completed, collected, depsOk, store0, dirs0, params0, written>>
  /\ UNCHANGED converterVars
  /\ UNCHANGED <<orchestratorVars, splitVars>>

\* a stage call that reads a local never assigned: UnboundLocalError
StageUnbound ==
  /\ pc = "stage"
  /\ StageGate(params, cur)
  /\ FirstUnbound(cur, bound) # None
  /\ error' = [kind |-> "UnboundLocalError", name |-> FirstUnbound(cur, bound),
               stage |-> cur]
  /\ pc' = "except"
  /\ UNCHANGED <<cur, params, dirs, store, bound, locals, result, exitCode,
                 runs, executed, completed, collected, depsOk, store0, dirs0, params0, written>>
  /\ UNCHANGED converterVars
  /\ UNCHANGED <<orchestratorVars, splitVars>>

StageDirs(s) == IF s = 6 THEN {"compiled"} ELSE {}

\* a stage whose side effect runs to its return
StageRun ==
  /\ pc = "stage"
  /\ StageGate(params, cur)
  /\ FirstUnbound(cur, bound) = None
  /\ LET fs == StageFiles(cur, params, locals, runs)
     IN  /\ store' = WriteAll(store, fs)
         /\ written' = WriteAll(written, fs)
  /\ dirs' = dirs \cup StageDirs(cur)
  /\ bound' = bound \cup {StageTarget(cur)}
  /\ locals' = [locals EXCEPT ![StageTarget(cur)] = StageReturn(cur, params)]
  /\ executed' = Append(executed, cur)
  /\ completed' = Append(completed, cur)
  /\ Advance
  /\ UNCHANGED <<params, error, result, exitCode, runs, collected, depsOk,
                 store0, dirs0, params0>>
  /\ UNCHANGED converterVars
  /\ UNCHANGED <<orchestratorVars, splitVars>>

\* a stage block that catches its own exception, logs it and goes on
StageRaiseSwallowed ==
  /\ pc = "stage"
  /\ StageGate(params, cur)
  /\ FirstUnbound(cur, bound) = None
  /\ LET fs == StageFiles(cur, params, locals, runs)
     IN  \E k \in 0..(Len(fs) - 1) :
           /\ store' = WriteAll(store, SubSeq(fs, 1, k))
           /\ \E made \in SUBSET StageDirs(cur) :
                /\ k > 0 => made = StageDirs(cur)
                /\ dirs' = dirs \cup made
  /\ executed' = Append(executed, cur)
  /\ error' = [kind |-> "StageError", name |-> None, stage |-> cur]
  /\ Advance
  /\ UNCHANGED <<params, bound, locals, result, exitCode, runs,
                 completed, collected, depsOk, store0, dirs0, params0, written>>
  /\ UNCHANGED converterVars
  /\ UNCHANGED <<orchestratorVars, splitVars>>

\* a stage whose side effect raises (makedirs or open fails) after k of its
\* files, its directory made or not when the first one fails
StageRaise ==
  /\ pc = "stage"
  /\ StageGate(params, cur)
  /\ FirstUnbound(cur, bound) = None
  /\ LET fs == StageFiles(cur, params, locals, runs)
     IN  \E k \in 0..(Len(fs) - 1) :
           /\ store' = WriteAll(store, SubSeq(fs, 1, k))
           /\ \E made \in SUBSET StageDirs(cur) :
                /\ k > 0 => made = StageDirs(cur)
                /\ dirs' = dirs \cup made
  /\ executed' = Append(executed, cur)
  /\ error' = [kind |-> "StageError", name |-> None, stage |-> cur]
  /\ pc' = "except"
  /\ UNCHANGED <<cur, params, bound, locals, result, exitCode, runs,
                 completed, collected, depsOk, store0, dirs0, params0, written>>
  /\ UNCHANGED converterVars
  /\ UNCHANGED <<orchestratorVars, splitVars>>

\* collect_outputs, lines 363-372: every item of temp/compiled is copied
CompiledItems(st) == {p \in DOMAIN st : p.loc = "compiled"}

\* a collector that moves the compiled items instead of copying them
CopyCompiledMoved(st, ds) ==
  IF "compiled" \in ds
  THEN [q \in (DOMAIN st \ CompiledItems(st))
                \cup {OutputPath(p) : p \in CompiledItems(st)} |->
          IF q.loc = "output" /\ CompiledPath(q) \in CompiledItems(st)
          THEN st[CompiledPath(q)] ELSE st[q]]
  ELSE st

CopyCompiled(st, ds) ==
  IF "compiled" \in ds
  THEN [q \in DOMAIN st \cup {OutputPath(p) : p \in CompiledItems(st)} |->
          IF q.loc = "output" /\ CompiledPath(q) \in CompiledItems(st)
          THEN st[CompiledPath(q)] ELSE st[q]]
  ELSE st

TokenizerPath(f) == Path("output", f, 0, 0, 0)

\* collect_outputs, lines 375-379: tokenizer files present in the model directory
CopyTokenizers(st, present) ==
  [q \in DOMAIN st \cup {TokenizerPath(f) : f \in present} |->
     IF q \in {TokenizerPath(f) : f \in present}
     THEN [part |-> "tokenizer"] ELSE st[q]]

\* the names collect_outputs can resolve: its parameters, its locals, the globals
CollectScope == {"temp_dir", "output_dir", "compiled_dir", "item", "src", "dst",
                 "tokenizer_files", "file"} \cup ModuleGlobals

\* collect_outputs (temp_dir, output_dir): line 377 reads the name params
Collect ==
  /\ pc = "collect"
  /\ collected' = TRUE
  /\ \E present \in SUBSET TokenizerFiles :
       IF "params" \in CollectScope
       THEN /\ store' = CopyTokenizers(CopyCompiled(store, dirs), present)
            /\ result' = "True"
            /\ error' = error
            /\ pc' = "returned"
       ELSE /\ store' = CopyCompiled(store, dirs)
            /\ result' = result
            /\ error' = [kind |-> "NameError", name |-> "params", stage |-> 0]
            /\ pc' = "except"
  /\ UNCHANGED <<cur, params, dirs, bound, locals, exitCode, runs, executed,
                 completed, depsOk, store0, dirs0, params0, written>>
  /\ UNCHANGED converterVars
  /\ UNCHANGED <<orchestratorVars, splitVars>>

\* convert_model, lines 471-475: except Exception: return False
Except ==
  /\ pc = "except"
  /\ result' = "False"
  /\ pc' = "returned"
  /\ UNCHANGED <<cur, params, dirs, store, bound, locals, error, exitCode,
                 runs, executed, completed, collected, depsOk, store0, dirs0, params0, written>>
  /\ UNCHANGED converterVars
  /\ UNCHANGED <<orchestratorVars, splitVars>>

\* main, lines 487-489: if not success: sys.exit(1)
Exit ==
  /\ pc = "returned"
  /\ exitCode' = IF result = "True" THEN 0 ELSE 1
  /\ pc' = "exited"
  /\ UNCHANGED <<cur, params, dirs, store, bound, locals, error, result,
                 runs, executed, completed, collected, depsOk, store0, dirs0, params0, written>>
  /\ UNCHANGED converterVars
  /\ UNCHANGED <<orchestratorVars, splitVars>>

Next ==
  \/ Main
  \/ CheckDependencies
  \/ Setup
  \/ StageSkip
  \/ StageUnbound
  \/ StageRun
  \/ StageRaise
  \/ Collect
  \/ Except
  \/ Exit

Spec == Init /\ [][Next]_vars

\* invocations of SpecRerun: full runs and resumed runs on one output root,
\* with and without --skip-check
RerunArgs ==
  ArgSpace({"llama"}, {None}, ChunkChoices, {6}, BOOLEAN, {0, 5}, {0})

MainRerun == MainFrom(RerunArgs)

NextRerun ==
  \/ MainRerun
  \/ CheckDependencies
  \/ Setup
  \/ StageSkip
  \/ StageUnbound
  \/ StageRun
  \/ StageRaise
  \/ Collect
  \/ Except
  \/ Exit

SpecRerun == Init /\ [][NextRerun]_vars

\* ------------------------------------- convert_hf_to_coreml.py: main
\* pieces model_type strings are put together from
Pieces ==
  {Spell[k] : k \in DOMAIN Spell}
    \cup {<<"2">>, <<"-">>, <<"b", "e", "r", "t">>,
          <<"L", "L", "a", "M", "A">>, <<"M", "P", "T">>, <<"Q", "w", "e", "n">>,
          <<"q", "w">>, <<"q">>, <<"e", "n">>,
          <<"s", "t", "a", "b", "l", "e">>, <<"l", "m">>}

RECURSIVE Strings(_)
Strings(n) ==
  IF n = 0 THEN {<<>>}
  ELSE Strings(n - 1) \cup {s \o piece : s \in Strings(n - 1), piece \in Pieces}

\* configs that differ in model_type only
ClassifyConfigs ==
  {Config(model_type, <<0, 0, 0>>, <<0, 0, 0>>, 0) : model_type \in Strings(MaxParts)}

\* one model_type for each architecture
SizingModelTypes == {Spell[k] : k \in DOMAIN Spell} \cup {<<"b", "e", "r", "t">>}

HiddenSizes == {2048 * j : j \in 1..MaxHidden}
LayerCounts == {16 * j : j \in 1..MaxLayers}
VocabSizes == {0, 32000, 128256}

\* (hidden_size, n_embd, d_model): none, one, or two of the names present
HiddenFields ==
  {<<0, 0, 0>>, <<2048, 4096, 0>>, <<0, 2048, 4096>>}
    \cup {<<h, 0, 0>> : h \in HiddenSizes}
    \cup {<<0, h, 0>> : h \in HiddenSizes}
    \cup {<<0, 0, h>> : h \in HiddenSizes}

\* (num_hidden_layers, n_layer, num_layers)
LayerFields ==
  {<<0, 0, 0>>, <<16, 32, 0>>, <<0, 16, 32>>}
    \cup {<<l, 0, 0>> : l \in LayerCounts}
    \cup {<<0, l, 0>> : l \in LayerCounts}
    \cup {<<0, 0, l>> : l \in LayerCounts}

SizingConfigs ==
  {Config(model_type, hidden, layers, vocab_size) :
     model_type \in SizingModelTypes, hidden \in HiddenFields,
     layers \in LayerFields, vocab_size \in VocabSizes}

\* AutoConfig.from_pretrained(args.model_path) gives one of Configs
InitConverterWith(Configs) ==
  /\ config \in Configs
  /\ architecture = None
  /\ chunks = 0
  /\ conversion_progress = InitialProgress
  /\ step = 0
  /\ at = "main"
  /\ weights = DefaultWeights
  /\ now = 0
  /\ report = NoReport

\* main, lines 446-450: the architecture and the chunk count of the config
Analyze ==
  /\ at = "main"
  /\ architecture = None
  /\ architecture' = detect_model_architecture(config)
  /\ chunks' = recommend_chunk_count(config)
  /\ UNCHANGED <<config, conversion_progress, step, at, weights, now, report>>
  /\ UNCHANGED pipelineVars
  /\ UNCHANGED <<orchestratorVars, splitVars>>

NextAnalyze == Analyze

InitClassify ==
  /\ InitPipeline /\ InitConverterWith(ClassifyConfigs)
  /\ InitOrchestrator /\ InitSplit

SpecClassify == InitClassify /\ [][NextAnalyze]_vars

InitSizing ==
  /\ InitPipeline /\ InitConverterWith(SizingConfigs)
  /\ InitOrchestrator /\ InitSplit

SpecSizing == InitSizing /\ [][NextAnalyze]_vars

\* the fractions update_progress is called with
Fractions == 0..Grain

\* with progress_step(conversion_steps[i]): the block is entered
ProgressStepEnter ==
  /\ at = "main"
  /\ step < Len(conversion_steps)
  /\ step' = step + 1
  /\ conversion_progress' =
       progress_step_enter(conversion_progress, conversion_steps[step + 1],
                           weights[step + 1], now)
  /\ at' = "step"
  /\ UNCHANGED <<config, architecture, chunks, weights, now, report>>
  /\ UNCHANGED pipelineVars
  /\ UNCHANGED <<orchestratorVars, splitVars>>

\* update_progress(progress, message) inside the block
UpdateProgress ==
  /\ at = "step"
  /\ \E progress \in Fractions :
       conversion_progress' = update_progress(conversion_progress, progress)
  /\ report' = status(conversion_progress', now)
  /\ UNCHANGED <<config, architecture, chunks, step, at, weights, now>>
  /\ UNCHANGED pipelineVars
  /\ UNCHANGED <<orchestratorVars, splitVars>>

\* the block ends normally
ProgressStepExit ==
  /\ at = "step"
  /\ conversion_progress' =
       progress_step_exit(conversion_progress, conversion_steps[step])
  /\ at' = "main"
  /\ UNCHANGED <<config, architecture, chunks, step, weights, now, report>>
  /\ UNCHANGED pipelineVars
  /\ UNCHANGED <<orchestratorVars, splitVars>>

\* the block raises: progress_step logs and re-raises, main returns 1
ProgressStepRaise ==
  /\ at = "step"
  /\ at' = "failed"
  /\ UNCHANGED <<config, architecture, chunks, conversion_progress, step,
                 weights, now, report>>
  /\ UNCHANGED pipelineVars
  /\ UNCHANGED <<orchestratorVars, splitVars>>

NextProgress ==
  \/ ProgressStepEnter
  \/ UpdateProgress
  \/ ProgressStepExit
  \/ ProgressStepRaise

\* the weights the progress_step calls of a run pass
WeightChoices == {DefaultWeight, 2 * DefaultWeight}

InitProgress ==
  /\ InitPipeline
  /\ InitOrchestrator
  /\ InitSplit
  /\ config = NoConfig
  /\ architecture = None
  /\ chunks = 0
  /\ conversion_progress = InitialProgress
  /\ step = 0
  /\ at = "main"
  /\ weights \in [1..TotalSteps -> WeightChoices]
  /\ now = 0
  /\ report = NoReport

SpecProgress == InitProgress /\ [][NextProgress]_vars

\* time passes
Tick ==
  /\ now < MaxTime
  /\ now' = now + 1
  /\ UNCHANGED <<config, architecture, chunks, conversion_progress, step, at,
                 weights, report>>
  /\ UNCHANGED pipelineVars
  /\ UNCHANGED <<orchestratorVars, splitVars>>

NextEta ==
  \/ ProgressStepEnter
  \/ UpdateProgress
  \/ ProgressStepExit
  \/ ProgressStepRaise
  \/ Tick

SpecEta == Init /\ [][NextEta]_vars

\* invocations of SpecDetect: every model directory, with and without
\* --architecture
DetectArgs ==
  ArgSpace(Models, ArchitectureArgs, {1}, {6}, {TRUE}, {0}, {0, 5})

MainDetect == MainFrom(DetectArgs)

NextDetect ==
  \/ MainDetect
  \/ CheckDependencies
  \/ Setup
  \/ StageSkip
  \/ StageUnbound
  \/ StageRun
  \/ StageRaise
  \/ Collect
  \/ Except
  \/ Exit

SpecDetect == Init /\ [][NextDetect]_vars

\* ====================================================================
\* scripts/convert_model_for_ane.py: main starts the three sub-scripts
\* one after the other through run_script, which reads the child's
\* stdout pipe to end-of-file, waits for it, and reads the stderr pipe
\* only when the exit code is not 0.  A pipe holds PipeCap lines; a child
\* writing to a full pipe blocks until the parent reads from it.
\* ====================================================================
\* lines a pipe buffers
PipeCap == 2
\* lines a child writes before it exits, at most
MaxOutput == 3

\* convert_hf_to_coreml.py, split_coreml_model.py, generate_processors.py
NumScripts == 3
ExitCodes == {0, 1}

\* a run_script that reports success whatever the exit code
run_script_returns_true(code) == TRUE

\* return value of run_script, lines 64-70
run_script_returns(code) == code = 0

\* main, line 73: parse_args on some machine
OrchMain ==
  /\ opc = "idle"
  /\ opc' = "check"
  /\ odeps' \in BOOLEAN
  /\ UNCHANGED <<script, started, codes, readme, ret, cpc, pending, outPipe,
                 errPipe, emitted, returncode>>
  /\ UNCHANGED <<pipelineVars, converterVars, splitVars>>

\* main, lines 76-80: return 1 unless every package imports
OrchCheckDependencies ==
  /\ opc = "check"
  /\ IF odeps
     THEN opc' = "popen" /\ script' = 1 /\ ret' = ret
     ELSE opc' = "returned" /\ script' = script /\ ret' = 1
  /\ UNCHANGED <<odeps, started, codes, readme, cpc, pending, outPipe,
                 errPipe, emitted, returncode>>
  /\ UNCHANGED <<pipelineVars, converterVars, splitVars>>

\* run_script, lines 51-56: the child starts with two empty pipes
Popen ==
  /\ opc = "popen"
  /\ opc' = "readline"
  /\ started' = Append(started, script)
  /\ cpc' = "running"
  /\ pending' = "none"
  /\ outPipe' = 0
  /\ errPipe' = 0
  /\ emitted' = 0
  /\ returncode' = -1
  /\ UNCHANGED <<script, odeps, codes, readme, ret>>
  /\ UNCHANGED <<pipelineVars, converterVars, splitVars>>

\* run_script, lines 59-60: a line is read from the stdout pipe and printed
ReadLine ==
  /\ opc = "readline"
  /\ outPipe > 0
  /\ outPipe' = outPipe - 1
  /\ UNCHANGED <<opc, script, odeps, started, codes, readme, ret, cpc,
                 pending, errPipe, emitted, returncode>>
  /\ UNCHANGED <<pipelineVars, converterVars, splitVars>>

\* run_script, line 59: readline returns "" once the child has closed stdout
ReadEOF ==
  /\ opc = "readline"
  /\ outPipe = 0
  /\ cpc = "exited"
  /\ opc' = "wait"
  /\ UNCHANGED <<script, odeps, started, codes, readme, ret, cpc, pending,
                 outPipe, errPipe, emitted, returncode>>
  /\ UNCHANGED <<pipelineVars, converterVars, splitVars>>

\* run_script, lines 62-70, and the branch of main on its result
\* (lines 99-101, 119-121, 137-139)
Wait ==
  /\ opc = "wait"
  /\ cpc = "exited"
  /\ codes' = Append(codes, returncode)
  /\ cpc' = "none"
  /\ IF run_script_returns(returncode)
     THEN /\ errPipe' = errPipe
          /\ ret' = ret
          /\ IF script < NumScripts
             THEN opc' = "popen" /\ script' = script + 1
             ELSE opc' = "readme" /\ script' = script
     ELSE /\ errPipe' = 0
          /\ ret' = 1
          /\ opc' = "returned"
          /\ script' = script
  /\ UNCHANGED <<odeps, started, readme, pending, outPipe, emitted, returncode>>
  /\ UNCHANGED <<pipelineVars, converterVars, splitVars>>

\* main, lines 147-161: README.md is written, main returns 0
WriteReadme ==
  /\ opc = "readme"
  /\ readme' = TRUE
  /\ ret' = 0
  /\ opc' = "returned"
  /\ UNCHANGED <<script, odeps, started, codes, cpc, pending, outPipe,
                 errPipe, emitted, returncode>>
  /\ UNCHANGED <<pipelineVars, converterVars, splitVars>>

\* main, line 148: open raises, main does not return
ReadmeRaise ==
  /\ opc = "readme"
  /\ opc' = "raised"
  /\ UNCHANGED <<script, odeps, started, codes, readme, ret, cpc, pending,
                 outPipe, errPipe, emitted, returncode>>
  /\ UNCHANGED <<pipelineVars, converterVars, splitVars>>

\* the child prints a line: into the stdout pipe, or it blocks on a full one
ChildPrint ==
  /\ cpc = "running"
  /\ pending = "none"
  /\ emitted < MaxOutput
  /\ emitted' = emitted + 1
  /\ IF outPipe < PipeCap
     THEN outPipe' = outPipe + 1 /\ pending' = pending
     ELSE outPipe' = outPipe /\ pending' = "stdout"
  /\ UNCHANGED <<opc, script, odeps, started, codes, readme, ret, cpc,
                 errPipe, returncode>>
  /\ UNCHANGED <<pipelineVars, converterVars, splitVars>>

\* the child logs a line (logging.basicConfig writes to stderr): into the
\* stderr pipe, or it blocks on a full one
ChildLog ==
  /\ cpc = "running"
  /\ pending = "none"
  /\ emitted < MaxOutput
  /\ emitted' = emitted + 1
  /\ IF errPipe < PipeCap
     THEN errPipe' = errPipe + 1 /\ pending' = pending
     ELSE errPipe' = errPipe /\ pending' = "stderr"
  /\ UNCHANGED <<opc, script, odeps, started, codes, readme, ret, cpc,
                 outPipe, returncode>>
  /\ UNCHANGED <<pipelineVars, converterVars, splitVars>>

\* lines in the pipe of a stream
Buffered(stream, out, err) == IF stream = "stdout" THEN out ELSE err

\* a blocked write completes once its pipe has room
ChildResume ==
  /\ cpc = "running"
  /\ pending # "none"
  /\ Buffered(pending, outPipe, errPipe) < PipeCap
  /\ outPipe' = IF pending = "stdout" THEN outPipe + 1 ELSE outPipe
  /\ errPipe' = IF pending = "stderr" THEN errPipe + 1 ELSE errPipe
  /\ pending' = "none"
  /\ UNCHANGED <<opc, script, odeps, started, codes, readme, ret, cpc,
                 emitted, returncode>>
  /\ UNCHANGED <<pipelineVars, converterVars, splitVars>>

\* the child exits, which closes its ends of both pipes
ChildExit ==
  /\ cpc = "running"
  /\ pending = "none"
  /\ cpc' = "exited"
  /\ returncode' \in ExitCodes
  /\ UNCHANGED <<opc, script, odeps, started, codes, readme, ret, pending,
                 outPipe, errPipe, emitted>>
  /\ UNCHANGED <<pipelineVars, converterVars, splitVars>>

Parent ==
  \/ OrchMain
  \/ OrchCheckDependencies
  \/ Popen
  \/ ReadLine
  \/ ReadEOF
  \/ Wait
  \/ WriteReadme
  \/ ReadmeRaise

Child ==
  \/ ChildPrint
  \/ ChildLog
  \/ ChildResume
  \/ ChildExit

NextOrchestrator ==
  \/ OrchMain
  \/ OrchCheckDependencies
  \/ Popen
  \/ ReadLine
  \/ ReadEOF
  \/ Wait
  \/ WriteReadme
  \/ ReadmeRaise
  \/ ChildPrint
  \/ ChildLog
  \/ ChildResume
  \/ ChildExit

SpecOrchestrator == Init /\ [][NextOrchestrator]_vars

\* parent and child are two processes of the operating system: each runs
\* whenever it is not blocked
SpecOrchestratorFair ==
  /\ Init
  /\ [][NextOrchestrator]_vars
  /\ WF_vars(Parent)
  /\ WF_vars(Child)


\* ====================================================================
\* scripts/split_coreml_model.py: split_model_into_chunks assigns a layer
\* range to each of num_chunks chunks and makes one directory per chunk.
\* ====================================================================
\* most layers of a model, most chunks asked for
MaxTotalLayers == 8
MaxSplit == 4

\* line 31: total_layers // num_chunks
layers_per_chunk(total, n) == total \div n

\* line 45: i * layers_per_chunk
start_idx(k, total, n) == k * layers_per_chunk(total, n)

\* a split whose last chunk ends like every other chunk
end_idx_even(k, total, n) == (k + 1) * layers_per_chunk(total, n)

\* line 46: (i + 1) * layers_per_chunk if i < num_chunks - 1 else total_layers
end_idx(k, total, n) ==
  IF k < n - 1 THEN (k + 1) * layers_per_chunk(total, n) ELSE total

\* line 57: the number in {base_model_name}_chunk{i+1}.mlmodelc
chunk_number(k) == k + 1

\* a model of any size up to MaxTotalLayers, --num_chunks from 1 to MaxSplit
InitSplitter ==
  /\ InitPipeline
  /\ InitConverter
  /\ InitOrchestrator
  /\ total_layers \in 0..MaxTotalLayers
  /\ num_chunks \in 1..MaxSplit
  /\ loop_i = 0
  /\ ranges = <<>>
  /\ chunk_names = {}

\* lines 44-66: one iteration of for i in range(num_chunks)
SplitChunk ==
  /\ loop_i < num_chunks
  /\ ranges' = Append(ranges, <<start_idx(loop_i, total_layers, num_chunks),
                                end_idx(loop_i, total_layers, num_chunks)>>)
  /\ chunk_names' = chunk_names \cup {chunk_number(loop_i)}
  /\ loop_i' = loop_i + 1
  /\ UNCHANGED <<total_layers, num_chunks>>
  /\ UNCHANGED <<pipelineVars, converterVars, orchestratorVars>>

NextSplit == SplitChunk

SpecSplit == InitSplitter /\ [][NextSplit]_vars


\* ====================================================================
\* The claims.  The stage catalogue below is the specification's: what
\* each stage depends on and which artifact keys it produces for a plan.
\* ====================================================================
Range(q) == {q[i] : i \in DOMAIN q}

AllStages == [i \in 1..NumStages |-> i]
StagesFrom(s) == [i \in 1..(NumStages - s + 1) |-> s + i - 1]

DependsOn(s) ==
  CASE s = 5 -> {3, 4}
    [] s = 6 -> {1, 2, 5}
    [] s = 7 -> {2, 6}
    [] s = 8 -> {6, 7}
    [] OTHER -> {}

ChunkKeys(kind, P) ==
  {[loc |-> "temp", kind |-> kind, lut |-> P.lut, idx |-> i, total |-> P.chunks] :
     i \in 1..P.chunks}

SourceKeys(P) ==
  {[loc |-> "temp", kind |-> "embeddings", lut |-> 0, idx |-> 0, total |-> 0],
   [loc |-> "temp", kind |-> "lm_head", lut |-> P.lut, idx |-> 0, total |-> 0]}
  \cup ChunkKeys("combined", P)

ArtifactKeys(s, P) ==
  CASE s = 1 -> {[loc |-> "temp", kind |-> "embeddings", lut |-> 0, idx |-> 0, total |-> 0]}
    [] s = 2 -> {[loc |-> "temp", kind |-> "lm_head", lut |-> P.lut, idx |-> 0, total |-> 0]}
    [] s = 3 -> ChunkKeys("FFN", P)
    [] s = 4 -> ChunkKeys("prefill", P)
    [] s = 5 -> ChunkKeys("combined", P)
    [] s = 6 -> {[k EXCEPT !.loc = "compiled"] : k \in SourceKeys(P)}
    [] s = 7 -> {[loc |-> "output", kind |-> "meta.yaml", lut |-> 0, idx |-> 0, total |-> 0],
                 [loc |-> "output", kind |-> "meta.json", lut |-> 0, idx |-> 0, total |-> 0]}
    [] OTHER -> {[loc |-> "output", kind |-> "test_report.json", lut |-> 0, idx |-> 0, total |-> 0]}

Present(s, P, st) == ArtifactKeys(s, P) \subseteq DOMAIN st

\* the process is past the dependency check: convert_model was entered
Entered ==
  \/ pc \in {"setup", "stage", "collect", "except", "returned"}
  \/ pc = "exited" /\ result # "none"

\* convert_model has returned and the process has exited
Finished == pc = "exited" /\ result # "none"

NoStageError == error.kind # "StageError"

\* the plan's invariant numChunks >= 1
ValidPlan == params.chunks >= 1

\* the (kind, index, total) of every chunk artifact on storage
ChunkIndexSets(st) ==
  {<<p.kind, p.lut, p.idx, p.total>> :
     p \in {q \in DOMAIN st : q.kind \in {"FFN", "prefill", "combined"} /\ q.loc = "temp"}}

\* C1: a full run (no --restart, no --only) in which every stage side
\* effect succeeds ends with convert_model returning True and exit code 0.
C1_FullRunSucceeds ==
  (Finished /\ ValidPlan /\ params.restart = 0 /\ params.only = 0
     /\ completed = AllStages)
    => (result = "True" /\ exitCode = 0)

\* C2: when the side effect of stage s raises, the run halts at s: no later
\* stage executes, s is not retried, the collector is not invoked, the
\* result is failed (False, exit code 1), and what the stages completed
\* before s wrote is still on storage unchanged.
C2_HaltOnStageError ==
  error.kind = "StageError" =>
    LET s == error.stage IN
      /\ executed = Append(completed, s)
      /\ \A i \in DOMAIN completed : completed[i] < s
      /\ ~collected
      /\ pc \in {"except", "returned", "exited"}
      /\ (pc \in {"returned", "exited"} => result = "False")
      /\ (pc = "exited" => exitCode = 1)
      /\ \A p \in DOMAIN written : p \in DOMAIN store /\ store[p] = written[p]

C2_Witness ==
  /\ pc = "exited"
  /\ error.kind = "StageError"
  /\ error.stage = 6
  /\ completed = <<1, 2, 3, 4, 5>>
  /\ params.chunks = 2
  /\ runs = 2

\* C3: a run with --restart s (no --only) on an output root that holds all
\* artifacts of the stages before s for the same plan skips those stages,
\* executes exactly the stages s..8 in ascending order and succeeds.
C3_ResumeSucceeds ==
  (/\ Finished
   /\ ValidPlan
   /\ params.only = 0
   /\ params.restart \in Stages
   /\ NoStageError
   /\ \A t \in 1..(params.restart - 1) : Present(t, params, store0))
    => (executed = StagesFrom(params.restart) /\ result = "True")

\* an artifact of a stage before s that a stage from s on depends on is absent
MissingUpstream(s, P, st) ==
  \E t \in s..NumStages : \E d \in DependsOn(t) : d < s /\ ~Present(d, P, st)

\* C4: a run with --restart s for which an artifact of a stage before s that
\* an executing stage requires is absent fails fast with MissingArtifact
\* before any stage side effect: nothing is created or overwritten.
C4_ResumeFailsFast ==
  (/\ Entered
   /\ ValidPlan
   /\ params.only = 0
   /\ params.restart \in Stages
   /\ MissingUpstream(params.restart, params, store0))
    => /\ executed = <<>>
       /\ store = store0
       /\ (pc = "exited" => error.kind = "MissingArtifact" /\ exitCode = 1)

\* C5: a run with --only s (no --restart) whose required inputs are on
\* storage executes stage s exactly once and no other stage, invokes the
\* collector and succeeds; with a required input absent it fails with
\* MissingArtifact and stage s writes nothing.
C5_OnlyStage ==
  (/\ Finished
   /\ ValidPlan
   /\ params.restart = 0
   /\ params.only \in Stages
   /\ NoStageError)
    => IF \A d \in DependsOn(params.only) : Present(d, params, store0)
       THEN executed = <<params.only>> /\ collected /\ result = "True"
       ELSE /\ error.kind = "MissingArtifact"
            /\ result = "False"
            /\ executed = <<>>
            /\ store = store0

\* C6: a run with --only 5 on an output root without ffn_chunk and
\* prefill_chunk artifacts fails with a MissingArtifact error naming the
\* missing ffn_chunk/prefill_chunk keys and creates no combined_chunk.
C6_OnlyCombineMissing ==
  (/\ Finished
   /\ ValidPlan
   /\ params.only = 5
   /\ params.restart = 0
   /\ \A p \in DOMAIN store0 : p.kind \notin {"FFN", "prefill"})
    => /\ result = "False"
       /\ error.kind = "MissingArtifact"
       /\ error.name \in {"ffn_chunk", "prefill_chunk"}
       /\ \A p \in DOMAIN store : p.kind = "combined" => p \in DOMAIN store0

\* C7: with both --only o and --restart r set (any o, r in 1..8), stage o's
\* side effect is executed and no other stage's is.
C7_OnlyTakesPrecedence ==
  (Finished /\ ValidPlan /\ params.only \in Stages /\ params.restart \in Stages)
    => executed = <<params.only>>

\* storage holds the complete output of a full run with plan P
FullRunLeft(P, st) ==
  /\ \A t \in Stages : Present(t, P, st)
  /\ st[MetaJsonPath] = MetaJson(P)

\* C8: re-running with --restart 6 on the output root a full run with the
\* same plan left keeps meta.json and the chunk-index sets identical to the
\* full run's, and the resumed run completes stages 6, 7 and 8.
C8_ResumeEquivalence ==
  (/\ Finished
   /\ ValidPlan
   /\ params.restart = 6
   /\ params.only = 0
   /\ NoStageError
   /\ FullRunLeft(params, store0))
    => /\ store[MetaJsonPath] = store0[MetaJsonPath]
       /\ ChunkIndexSets(store) = ChunkIndexSets(store0)
       /\ completed = <<6, 7, 8>>

\* C9: executing stage s again with an unchanged plan (its artifacts for
\* this plan are already on storage) leaves the set of artifact keys, and
\* so stage s's key set and chunk-index coverage, as it was, and leaves
\* every artifact of every other stage unchanged.
C9_StageIdempotent ==
  [][(pc = "stage" /\ completed' = Append(completed, cur)) =>
       LET own == ArtifactKeys(cur, params) IN
         /\ own \subseteq DOMAIN store'
         /\ (own \subseteq DOMAIN store => DOMAIN store' = DOMAIN store)
         /\ \A p \in DOMAIN store \ own : p \in DOMAIN store' /\ store'[p] = store[p]
    ]_vars

C9_Witness ==
  /\ runs = 2
  /\ completed = AllStages
  /\ params.chunks = 2
  /\ \A t \in Stages : Present(t, params, store0)
  /\ \A p \in ArtifactKeys(5, params) : store[p].created = 2 /\ store0[p].created = 1

\* C10: when a dependency is missing and the check is not skipped the
\* process exits with code 1 before any stage side effect and before any
\* directory or artifact is created; with --skip-check the outcome of the
\* check does not keep convert_model from running.
C10_DependencyCheck ==
  /\ (pc \notin {"idle", "check"} /\ ~params.skip_check /\ ~depsOk)
       => /\ pc = "exited"
          /\ exitCode = 1
          /\ result = "none"
          /\ executed = <<>>
          /\ store = store0
          /\ dirs = dirs0
  /\ (pc \notin {"idle", "check"} /\ params.skip_check) => Entered

C10_Witness ==
  /\ pc = "exited"
  /\ ~params.skip_check
  /\ ~depsOk
  /\ runs = 2
  /\ store0 # EmptyStore

\* the classifier's keys in their declared order
ClassifierKeys ==
  <<"llama", "mistral", "phi", "qwen", "qwq", "falcon", "gemma", "stablelm", "mpt">>

\* c and d are the same letter, whatever their case
SameLetter(c, d) ==
  c = d \/ \E j \in 1..Len(UpperCase) : {c, d} = {UpperCase[j], LowerCase[j]}

\* key occurs in s as a substring, case-insensitively
Occurs(key, s) ==
  \E off \in 0..(Len(s) - Len(Spell[key])) :
    \A j \in 1..Len(Spell[key]) : SameLetter(s[off + j], Spell[key][j])

OccurringKeys(s) == {i \in 1..Len(ClassifierKeys) : Occurs(ClassifierKeys[i], s)}

\* the variant of the first key in declared order that occurs in s, else generic
Classify(s) ==
  IF OccurringKeys(s) = {} THEN "generic"
  ELSE ClassifierKeys[CHOOSE i \in OccurringKeys(s) : \A j \in OccurringKeys(s) : i <= j]

\* C11: detect_model_architecture returns, for a model_type that contains
\* one of the nine keys as a substring (case-insensitively), the architecture
\* of the first key in declared order that occurs in it, and generic for a
\* model_type that contains none of them.
C11_ClassifyFirstMatch ==
  architecture # None => architecture = Classify(config.model_type)

C11_Witness ==
  /\ architecture = "llama"
  /\ config.model_type = <<"M", "P", "T", "L", "L", "a", "M", "A">>

\* the architecture variants
Variants ==
  {"llama", "mistral", "phi", "qwen", "qwq", "falcon", "gemma", "stablelm", "mpt",
   "generic"}

\* the variant of a model directory: by its model_type, generic without one
VariantOf(model) ==
  IF ConfigJson(model).exists THEN Classify(ConfigJson(model).model_type)
  ELSE "generic"

\* C12: in the staged pipeline, with no --architecture given, the
\* architecture of the plan before stage 1 runs is one of the ten variants:
\* the variant whose key the model_type contains, and generic for an unknown
\* or missing model_type or a missing config.json.
C12_PlanArchitecture ==
  (pc = "stage" /\ cur = 1 /\ params0.architecture = None)
    => (params.architecture \in Variants
        /\ params.architecture = VariantOf(params.model))

\* main has computed the architecture and the chunk count of config
Analyzed == architecture # None

\* the sizing fields of a config under any of their accepted names (0: none)
HiddenOf(cfg) ==
  IF cfg.hidden_size # 0 THEN cfg.hidden_size
  ELSE IF cfg.n_embd # 0 THEN cfg.n_embd ELSE cfg.d_model

LayersOf(cfg) ==
  IF cfg.num_hidden_layers # 0 THEN cfg.num_hidden_layers
  ELSE IF cfg.n_layer # 0 THEN cfg.n_layer ELSE cfg.num_layers

Sized(cfg) == HiddenOf(cfg) # 0 /\ LayersOf(cfg) # 0 /\ cfg.vocab_size # 0

\* the estimated parameter count, in units of ParamUnit parameters
ParamsOf(cfg) == ParamCount(HiddenOf(cfg), LayersOf(cfg), cfg.vocab_size)

\* the configs of one model_type (so of one architecture) over every sizing
SizedConfigs(model_type) ==
  {Config(model_type, <<h, 0, 0>>, <<l, 0, 0>>, v) :
     h \in HiddenSizes, l \in LayerCounts, v \in VocabSizes \ {0}}

\* C13: the chunk count recommend_chunk_count returns is an even integer
\* >= 4 for every architecture and config, and for a fixed architecture a
\* config with a larger estimated parameter count never gets a smaller one.
C13_EvenMonotone ==
  Analyzed =>
    /\ chunks % 2 = 0
    /\ chunks >= 4
    /\ Sized(config) =>
         \A other \in SizedConfigs(config.model_type) :
           ParamsOf(other) >= ParamsOf(config)
             => recommend_chunk_count(other) >= chunks

C13_Witness ==
  /\ architecture = "qwq"
  /\ chunks = 14
  /\ HiddenOf(config) = 8192
  /\ LayersOf(config) = 80

\* the base chunk count of each variant
BaseChunkCount ==
  [llama |-> 6, mistral |-> 7, phi |-> 6, qwen |-> 8, qwq |-> 9, falcon |-> 7,
   gemma |-> 6, stablelm |-> 5, mpt |-> 6, generic |-> 6]

\* num/den rounded to the nearest integer, a half to the even neighbour
Round(num, den) ==
  LET q == num \div den
      r == num % den
  IN  IF 2 * r < den THEN q
      ELSE IF 2 * r > den THEN q + 1
      ELSE IF q % 2 = 0 THEN q ELSE q + 1

\* num/den rounded down
Floor(num, den) == num \div den

\* max(4, 2 * ceil(raw / 2))
EvenAtLeastFour(raw) ==
  LET even == IF raw % 2 = 0 THEN raw ELSE raw + 1
  IN  IF even < 4 THEN 4 ELSE even

\* raw with round(): base below 2B, round(base * 1.25) below 7B, else round(base * 1.5)
RawRounded(base, params_) ==
  IF params_ < 2 * Billion THEN base
  ELSE IF params_ < 7 * Billion THEN Round(base * 5, 4)
  ELSE Round(base * 3, 2)

\* raw with the products rounded down
RawFloored(base, params_) ==
  IF params_ < 2 * Billion THEN base
  ELSE IF params_ < 7 * Billion THEN Floor(base * 5, 4)
  ELSE Floor(base * 3, 2)

\* C14 as stated: for every architecture of the base table and every band,
\* recommend_chunk_count equals max(4, 2*ceil(raw/2)) with raw = base below
\* 2B parameters, round(base*1.25) from 2B to below 7B, round(base*1.5) from
\* 7B on.
C14_RoundedReference ==
  (Analyzed /\ Sized(config)) =>
    chunks = EvenAtLeastFour(RawRounded(BaseChunkCount[architecture], ParamsOf(config)))

\* C14 amended: the same with raw = floor(base*1.25) and floor(base*1.5):
\* the products are truncated, not rounded.
C14_FlooredReference ==
  (Analyzed /\ Sized(config)) =>
    chunks = EvenAtLeastFour(RawFloored(BaseChunkCount[architecture], ParamsOf(config)))

C14_Witness ==
  /\ architecture = "mistral"
  /\ Sized(config)
  /\ ParamsOf(config) >= 2 * Billion
  /\ ParamsOf(config) < 7 * Billion
  /\ chunks = 8

\* C15: for hidden size 4096, 32 layers, vocabulary 32000 and architecture
\* llama the estimated parameter count is 2,278,555,648 (35,602,432 units of
\* 64), which lies in the 2B..7B band, and recommend_chunk_count returns 8.
C15_LlamaExample ==
  (/\ Analyzed
   /\ architecture = "llama"
   /\ HiddenOf(config) = 4096
   /\ LayersOf(config) = 32
   /\ config.vocab_size = 32000)
    => /\ ParamUnit = 64
       /\ ParamsOf(config) = 35602432
       /\ ParamsOf(config) >= 2 * Billion
       /\ ParamsOf(config) < 7 * Billion
       /\ chunks = 8

C15_Witness ==
  /\ Analyzed
  /\ config = Config(Spell.llama, <<4096, 0, 0>>, <<32, 0, 0>>, 32000)
  /\ chunks = 8

\* C16: when the hidden size is under none of hidden_size/n_embd/d_model, or
\* the layer count under none of num_hidden_layers/n_layer/num_layers, or
\* vocab_size is absent, recommend_chunk_count returns 6 for every
\* architecture; when all three are there under any of these names the
\* result is the one computed from them.
C16_MissingFieldDefault ==
  Analyzed =>
    IF Sized(config)
    THEN \E h \in {config.hidden_size, config.n_embd, config.d_model} \ {0} :
         \E l \in {config.num_hidden_layers, config.n_layer, config.num_layers} \ {0} :
           chunks = EvenAtLeastFour(RawFloored(BaseChunkCount[architecture],
                                               ParamCount(h, l, config.vocab_size)))
    ELSE chunks = 6

C16_Witness ==
  /\ Analyzed
  /\ architecture = "qwq"
  /\ config.n_embd = 8192
  /\ config.vocab_size = 32000
  /\ LayersOf(config) = 0
  /\ chunks = 6

\* every step of the run has completed
FinalStepCompleted ==
  Len(conversion_progress.steps_completed) = conversion_progress.total_steps

\* overall_progress is 1.0
OverallComplete ==
  conversion_progress.overall_progress = conversion_progress.total_steps * Grain

\* C17: within one run the overall progress never decreases across any
\* sequence of step starts, update_progress calls with fractions in [0, 1]
\* and step completions, and it is 1.0 once the final step has completed.
C17_ProgressMonotone ==
  /\ [][conversion_progress'.overall_progress
          >= conversion_progress.overall_progress]_vars
  /\ [](FinalStepCompleted => OverallComplete)

\* the artifact kind of the chunked stages 3, 4, 5
ChunkKind(s) ==
  CASE s = 3 -> "FFN"
    [] s = 4 -> "prefill"
    [] OTHER -> "combined"

\* the chunk artifacts of one kind the completed stages of this run produced
Produced(kind) == {p \in DOMAIN written : p.loc = "temp" /\ p.kind = kind}

\* C18: after stage 3, 4 or 5 completes in a run with chunk count N, the
\* artifacts that stage produced in the run (named chunk_{i}of{N}) are
\* exactly N, with the indices 1..N, no gap and no duplicate.
C18_ChunkSetComplete ==
  \A s \in {3, 4, 5} :
    s \in Range(completed) =>
      LET N == params.chunks
          made == Produced(ChunkKind(s))
      IN  /\ Cardinality(made) = N
          /\ {p.idx : p \in made} = 1..N
          /\ \A p \in made : p.total = N /\ p.lut = params.lut
          /\ made \subseteq DOMAIN store
          /\ Len(locals[StageTarget(s)]) = N
          /\ Range(locals[StageTarget(s)]) = made

C18_Witness ==
  /\ runs = 2
  /\ params.chunks = 2
  /\ completed = <<1, 2, 3, 4, 5>>
  /\ Produced("combined") # {}
  /\ store0 # EmptyStore

\* C19: the collector copies every compiled artifact into the output tree
\* and then each tokenizer file that exists at the source; whichever of the
\* three tokenizer files are missing, collection raises no error and does
\* not turn the run into a failure.
C19_CollectorTolerant ==
  (collected /\ ValidPlan) =>
    /\ error.kind = "none"
    /\ pc \in {"returned", "exited"}
    /\ result = "True"
    /\ \A p \in CompiledItems(store) : OutputPath(p) \in DOMAIN store

\* C20: the plan of every run in which a stage side effect executes has
\* numChunks >= 1: a requested chunk count of 0 (or below) never reaches
\* stages 3, 4, 5, so no run completes them with an empty chunk set.
C20_ChunksAtLeastOne ==
  /\ executed # <<>> => params.chunks >= 1
  /\ \A s \in {3, 4, 5} :
       s \in Range(completed) => Produced(ChunkKind(s)) # {}

\* C21: in every run the stage side effects execute in ascending stage
\* order, each at most once, and whenever a stage's side effect executes,
\* every stage it depends on (5 on 3, 4; 6 on 1, 2, 5; 7 on 2, 6; 8 on 6, 7)
\* has completed earlier in the run or has its artifacts on storage.
C21_OrderAndDependencies ==
  ValidPlan =>
    /\ \A i, j \in DOMAIN executed : i < j => executed[i] < executed[j]
    /\ \A i \in DOMAIN executed :
         \A d \in DependsOn(executed[i]) :
           \/ \E j \in DOMAIN completed : completed[j] = d /\ d < executed[i]
           \/ Present(d, params, store0)

\* the sum of the first n weights
RECURSIVE WeightSum(_, _)
WeightSum(w, n) == IF n = 0 THEN 0 ELSE WeightSum(w, n - 1) + w[n]

\* C22: at every update the overall progress equals completedWeightSum /
\* totalWeight + currentStage.weight * currentFraction / totalWeight, the
\* weight of a stage being the one progress_step was started with (equal
\* weights by default): a stage started with another weight contributes in
\* proportion to it.
C22_WeightedProgress ==
  at = "step" =>
    LET cp == conversion_progress
        completedWeightSum == WeightSum(weights, Len(cp.steps_completed))
        totalWeight == WeightSum(weights, TotalSteps)
    IN  cp.overall_progress * totalWeight
          = (completedWeightSum * Grain + weights[step] * cp.step_progress)
              * cp.total_steps

\* C23: a status report carries an ETA exactly when the overall progress it
\* was computed for is strictly above 0.05; the ETA then equals
\* elapsed/overall - elapsed (compared by cross-multiplication), and the
\* division is never by an overall progress of 0.
C23_EtaThreshold ==
  report.shown =>
    LET o == report.overall
        e == report.elapsed
    IN  /\ o.den > 0
        /\ report.has_eta <=> 20 * o.num > o.den
        /\ report.has_eta =>
             /\ o.num > 0
             /\ report.eta.den # 0
             /\ report.eta.num * o.num = report.eta.den * e * (o.den - o.num)
        /\ ~report.has_eta => report.eta = Rat(0, 1)

\* a report with an ETA after time has passed, the run not yet finished
C23_Witness ==
  /\ report.shown
  /\ report.has_eta
  /\ report.elapsed > 0
  /\ report.eta.num > 0

\* C24: when stage 6 has completed in a run with chunk count N, the compiled
\* directory holds the compiled artifact of each input (embeddings, lm_head
\* and the N combined chunks), the stage wrote exactly these N + 2 pairwise
\* distinct artifacts, and no compiled artifact is of an FFN or prefill chunk.
C24_CompiledPerInput ==
  6 \in Range(completed) =>
    LET N == params.chunks
        compiled == {p \in DOMAIN store : p.loc = "compiled"}
        made == {p \in DOMAIN written : p.loc = "compiled"}
        expected == {[k EXCEPT !.loc = "compiled"] : k \in SourceKeys(params)}
    IN  /\ expected \subseteq compiled
        /\ made = expected
        /\ Cardinality(made) = N + 2
        /\ \A p \in compiled : p.kind \notin {"FFN", "prefill"}

\* stage 6 completed with two chunks, FFN and prefill chunks on storage
C24_Witness ==
  /\ 6 \in Range(completed)
  /\ params.chunks = MaxChunks
  /\ \E p \in DOMAIN store : p.loc = "temp" /\ p.kind = "FFN"
  /\ \E p \in DOMAIN store : p.loc = "temp" /\ p.kind = "prefill"

\* the fields of a metadata record the plan determines
PlanFields ==
  {"context_length", "batch_size", "num_chunks", "lut_bits", "architecture"}

\* C25: after stage 7 has completed, meta.json and meta.yaml both record the
\* plan's context length, batch size, chunk count and quantization bits,
\* agree with each other on every field, and their architecture field is
\* the plan's architecture tag, one of the ten variants.
C25_MetadataRecordsPlan ==
  7 \in Range(completed) =>
    /\ {MetaJsonPath, MetaYamlPath} \subseteq DOMAIN store
    /\ \A p \in {MetaJsonPath, MetaYamlPath} :
         /\ store[p].context_length = params.context
         /\ store[p].batch_size = params.batch_size
         /\ store[p].num_chunks = params.chunks
         /\ store[p].lut_bits = params.lut
         /\ store[p].architecture = params.architecture
         /\ store[p].architecture \in Variants
    /\ \A f \in PlanFields : store[MetaJsonPath][f] = store[MetaYamlPath][f]

\* the artifact of another kind with the same LUT, index and chunk count
Sibling(p, kind) == [p EXCEPT !.kind = kind]

\* C26: in every state reached by any sequence of runs from an empty
\* output root, each combined chunk i-of-N on storage has the FFN chunk and
\* the prefill chunk i-of-N on storage, and each compiled artifact has the
\* artifact it was compiled from on storage.
C26_ArtifactsHaveSources ==
  /\ \A p \in DOMAIN store :
       (p.loc = "temp" /\ p.kind = "combined") =>
          /\ Sibling(p, "FFN") \in DOMAIN store
          /\ Sibling(p, "prefill") \in DOMAIN store
  /\ \A p \in DOMAIN store :
       p.loc = "compiled" => [p EXCEPT !.loc = "temp"] \in DOMAIN store

\* a second run has added combined and compiled artifacts of another plan
C26_Witness ==
  /\ runs = MaxRuns
  /\ \E p, q \in DOMAIN store :
       /\ p.loc = "temp" /\ p.kind = "combined"
       /\ q.loc = "temp" /\ q.kind = "combined"
       /\ p.total # q.total
  /\ \E p \in DOMAIN store : p.loc = "compiled" /\ p.kind = "combined"

\* C27: no step of any run, completing, failing or cut short, removes an
\* artifact or a directory: the set of paths on storage only grows.
C27_ArtifactsOnlyGrow ==
  [][/\ DOMAIN store \subseteq DOMAIN store'
     /\ dirs \subseteq dirs']_vars

\* a second run on a root that held artifacts has added to them and failed
C27_Witness ==
  /\ runs = MaxRuns
  /\ pc = "exited"
  /\ exitCode = 1
  /\ DOMAIN store0 # {}
  /\ DOMAIN store0 # DOMAIN store
  /\ \E p \in DOMAIN store : p.loc = "output"

\* the sub-scripts in the order main names them
ScriptOrder == [k \in 1..NumScripts |-> k]

\* C28: the sub-scripts start in the order convert, split,
\* generate-processors, each only after the dependency check passed and
\* every earlier one exited with code 0; after the first non-zero exit no
\* later sub-script has started, no README is written and main, once it has
\* returned, returned 1; main returns 0 only when all three exited with
\* code 0 and the README is written.
C28_OrchestratorOrder ==
  /\ Len(started) <= NumScripts
  /\ started = SubSeq(ScriptOrder, 1, Len(started))
  /\ started # <<>> => odeps
  /\ Len(codes) <= Len(started)
  /\ \A k \in DOMAIN started : \A j \in 1..(k - 1) : j \in DOMAIN codes /\ codes[j] = 0
  /\ \A k \in DOMAIN codes :
       codes[k] # 0 =>
         /\ Len(started) = k
         /\ ~readme
         /\ opc = "returned"
         /\ ret = 1
  /\ ret = 0 =>
       /\ codes = [k \in 1..NumScripts |-> 0]
       /\ readme
  /\ readme => ret = 0

\* the second sub-script has exited with a non-zero code and main returned
C28_Witness ==
  /\ opc = "returned"
  /\ Len(codes) = 2
  /\ codes[1] = 0
  /\ codes[2] # 0
  /\ ret = 1

\* C29: run_script never deadlocks: whenever the parent is reading the
\* stdout of a child that writes finitely many lines to stdout and stderr
\* and then exits, process.wait() eventually completes and run_script
\* returns according to the exit code.
C29_RunScriptReturns ==
  (opc = "readline") ~> (opc \in {"popen", "readme", "returned"})

\* the chunks whose range [start_idx, end_idx) holds layer l
ChunksHolding(l) ==
  {k \in DOMAIN ranges : ranges[k][1] <= l /\ l < ranges[k][2]}

\* C30: when the loop of split_model_into_chunks has ended, for
\* total_layers >= 0 and num_chunks >= 1: there are num_chunks ranges, the
\* first starts at 0, each next one starts where the one before ends, the
\* last ends at total_layers, every layer 0..total_layers-1 lies in exactly
\* one range, the directories made are chunk1..chunk{num_chunks}, and no
\* range is empty when total_layers >= num_chunks.
C30_ContiguousPartition ==
  (loop_i = num_chunks /\ total_layers >= 0 /\ num_chunks >= 1) =>
    /\ Len(ranges) = num_chunks
    /\ ranges[1][1] = 0
    /\ \A k \in 1..(num_chunks - 1) : ranges[k + 1][1] = ranges[k][2]
    /\ ranges[num_chunks][2] = total_layers
    /\ \A k \in DOMAIN ranges : ranges[k][1] <= ranges[k][2]
    /\ \A l \in 0..(total_layers - 1) : Cardinality(ChunksHolding(l)) = 1
    /\ chunk_names = 1..num_chunks
    /\ total_layers >= num_chunks =>
         \A k \in DOMAIN ranges : ranges[k][1] < ranges[k][2]

\* a split into several chunks of a layer count they do not divide
C30_Witness ==
  /\ loop_i = num_chunks
  /\ num_chunks > 2
  /\ total_layers > num_chunks
  /\ total_layers % num_chunks # 0

====
